---- MODULE Spec2Model ----
(***************************************************************************)
(* A model of webrtc::AudioDeviceBuffer                                    *)
(* (webrtc/modules/audio_device/audio_device_buffer.cc).                   *)
(*                                                                         *)
(* Four execution contexts are interleaved, one atomic step per call:      *)
(*   - the main (control) thread: RegisterAudioCallback, Start*/Stop*,     *)
(*     SetRecordingChannels / SetPlayoutChannels;                          *)
(*   - the native recording thread: SetRecordedBuffer, DeliverRecordedData;*)
(*   - the native playout thread: RequestPlayoutData, GetPlayoutData;      *)
(*   - the task queue (task_queue_): one step per executed task.           *)
(* Time (rtc::TimeMillis) is the variable now, in milliseconds.  A delayed *)
(* task runs when its delay has expired; tasks take no time, so time never *)
(* passes the expiry of a pending delayed task.                            *)
(* RTC_DCHECKs are modelled as in a build with DCHECKs on: a failed check  *)
(* aborts the process (aborted = TRUE, nothing runs afterwards).           *)
(***************************************************************************)
EXTENDS Integers, Sequences, FiniteSets, TLC

\* ------------------------------------------------------------- constants
kTimerIntervalInSeconds == 10
kMinValidCallTimeTimeInSeconds == 10
kNumMillisecsPerSec == 1000
kTimerIntervalInMilliseconds == kTimerIntervalInSeconds * kNumMillisecsPerSec
kMinValidCallTimeTimeInMilliseconds ==
    kMinValidCallTimeTimeInSeconds * kNumMillisecsPerSec
\* The level is derived on every kStatCallInterval-th data call.
kStatCallInterval == 50
\* sizeof(int16_t)
kBytesPerInt16 == 2
kInt16Max == 32767
kInt16Min == -32768

\* ---------------------------------------------------------------- bounds
MaxTime == 25000          \* the clock stops here
TimeStep == 5000          \* granularity of the clock
MaxQueue == 3             \* pending immediate tasks a caller may add to
MaxTimers == 2            \* reporter starts (LOG_START tasks) ever posted
MaxChannels == 2
MaxFrames == 2
MaxDataCalls == 2         \* data calls per direction that post a task
MaxLevelRounds == 2       \* rounds of kStatCallInterval data calls
MaxStatCalls == 3         \* data calls per direction after the warm-up

\* ------------------------------------------------------------ vocabulary
NULL == "nullptr"
Transports == {"transport"}
Callbacks == Transports \cup {NULL}
Detached == "detached"
Threads == {"t1", "t2"}
LOG_START == "LOG_START"
LOG_STOP == "LOG_STOP"
LOG_ACTIVE == "LOG_ACTIVE"
Samples == {0, kInt16Min}
MicLevels == {0, 7}
NoCall == [op |-> "ctor", arg |-> 0]

Min(a, b) == IF a < b THEN a ELSE b
Max(a, b) == IF a > b THEN a ELSE b
Abs(x) == IF x < 0 THEN -x ELSE x

Task(fn, a, b) == [fn |-> fn, a |-> a, b |-> b]
Call(op, arg) == [op |-> op, arg |-> arg]

VARIABLES
    now,                        \* rtc::TimeMillis()
    audio_transport_cb,
    playing, recording,
    play_start_time, rec_start_time,
    only_silence_recorded,
    rec_channels, play_channels,
    rec_buffer, play_buffer,    \* sequences of int16 samples
    rec_stat_count, play_stat_count,
    new_mic_level,
    recording_thread_checker, playout_thread_checker,
    queue,                      \* task_queue_: immediate tasks, FIFO
    delayed,                    \* task_queue_: expiry times of the delayed
                                \* LogStats(LOG_ACTIVE) tasks, in posting order
    num_stat_reports, last_timer_task_time,
    rec_callbacks, last_rec_callbacks, rec_samples, last_rec_samples,
    max_rec_level,
    play_callbacks, last_play_callbacks, play_samples, last_play_samples,
    max_play_level,
    aborted,                    \* a DCHECK failed or the process faulted
    \* what an observer of the object sees
    last_call,                  \* the most recent call of the public interface
    ret,                        \* and its return value
    transport_calls,            \* the AudioTransport calls made by last_call
    audio_out,                  \* what GetPlayoutData copied to the caller
    histogram,                  \* WebRTC.Audio.RecordedOnlyZeros samples
    log_reports,                \* number of [REC]/[PLAY] log rounds printed
    \* bookkeeping of the environment
    log_start_time,             \* when the last LogStats(LOG_START) ran
    num_timers,                 \* LOG_START tasks posted so far
    num_rec_calls, num_play_calls,
    session_nonzero,            \* a non-zero sample was delivered this session
    session_nonzero_measured,   \* ... in a call on which the level is derived
    session_calls,              \* SetRecordedBuffer calls since the last
                                \* StartRecording that started a session
    session_samples             \* and the samples (frames) they carried

ctl == <<audio_transport_cb, playing, recording, play_start_time,
         rec_start_time, rec_channels, play_channels>>
recv == <<rec_buffer, rec_stat_count, new_mic_level, recording_thread_checker,
          num_rec_calls>>
playv == <<play_buffer, play_stat_count, playout_thread_checker, audio_out,
           num_play_calls>>
silence == <<only_silence_recorded, session_nonzero, session_nonzero_measured,
             session_calls, session_samples>>
timer == <<num_stat_reports, last_timer_task_time, log_reports,
           log_start_time>>
rec_stats == <<rec_callbacks, last_rec_callbacks, rec_samples,
               last_rec_samples, max_rec_level>>
play_stats == <<play_callbacks, last_play_callbacks, play_samples,
                last_play_samples, max_play_level>>
obs == <<last_call, ret, transport_calls>>
vars == <<now, ctl, recv, playv, silence, timer, rec_stats, play_stats, obs,
          queue, delayed, aborted, histogram, num_timers>>

\* ------------------------------------------------------------------ Init
\* AudioDeviceBuffer::AudioDeviceBuffer()
Init ==
    /\ now = 0
    /\ audio_transport_cb = NULL
    /\ playing = FALSE /\ recording = FALSE
    /\ play_start_time = 0 /\ rec_start_time = 0
    /\ only_silence_recorded = TRUE
    /\ rec_channels = 0 /\ play_channels = 0
    /\ rec_buffer = <<>> /\ play_buffer = <<>>
    /\ rec_stat_count = 0 /\ play_stat_count = 0
    /\ new_mic_level = 0
    /\ recording_thread_checker = Detached
    /\ playout_thread_checker = Detached
    /\ queue = <<>> /\ delayed = <<>>
    /\ num_stat_reports = 0 /\ last_timer_task_time = 0
    /\ rec_callbacks = 0 /\ last_rec_callbacks = 0
    /\ rec_samples = 0 /\ last_rec_samples = 0 /\ max_rec_level = 0
    /\ play_callbacks = 0 /\ last_play_callbacks = 0
    /\ play_samples = 0 /\ last_play_samples = 0 /\ max_play_level = 0
    /\ aborted = FALSE
    /\ last_call = NoCall /\ ret = 0 /\ transport_calls = <<>>
    /\ audio_out = <<>>
    /\ histogram = <<>>
    /\ log_reports = 0
    /\ log_start_time = 0
    /\ num_timers = 0
    /\ num_rec_calls = 0 /\ num_play_calls = 0
    /\ session_nonzero = FALSE /\ session_nonzero_measured = FALSE
    /\ session_calls = 0 /\ session_samples = 0

\* --------------------------------------------------------- the task queue
\* rtc::TaskQueue::PostTask
PostTask(q, task) == Append(q, task)

\* rtc::TaskQueue::PostDelayedTask: the task expires at now + milliseconds.
\* Every pending expiry is at most now + kTimerIntervalInMilliseconds, so
\* appending keeps the sequence ordered by expiry.
PostDelayedTask(d, milliseconds) == Append(d, now + milliseconds)

\* AudioDeviceBuffer::StartPeriodicLogging
StartPeriodicLogging(q) == PostTask(q, Task("LogStats", LOG_START, 0))

\* AudioDeviceBuffer::StopPeriodicLogging
StopPeriodicLogging(q) == PostTask(q, Task("LogStats", LOG_STOP, 0))

\* ------------------------------------------------------------ main thread
\* RegisterAudioCallback refusing only when both directions are active.
RegisterAudioCallback_BothActive(audio_callback) ==
    /\ ~aborted
    /\ last_call' = Call("RegisterAudioCallback", audio_callback)
    /\ transport_calls' = <<>>
    /\ IF playing /\ recording
       THEN /\ ret' = -1
            /\ UNCHANGED audio_transport_cb
       ELSE /\ audio_transport_cb' = audio_callback
            /\ ret' = 0
    /\ UNCHANGED <<now, playing, recording, play_start_time, rec_start_time,
                   rec_channels, play_channels, recv, playv, silence, timer,
                   rec_stats, play_stats, queue, delayed, aborted, histogram,
                   num_timers>>

\* AudioDeviceBuffer::RegisterAudioCallback
RegisterAudioCallback(audio_callback) ==
    /\ ~aborted
    /\ last_call' = Call("RegisterAudioCallback", audio_callback)
    /\ transport_calls' = <<>>
    /\ IF playing \/ recording
       THEN /\ ret' = -1
            /\ UNCHANGED audio_transport_cb
       ELSE /\ audio_transport_cb' = audio_callback
            /\ ret' = 0
    /\ UNCHANGED <<now, playing, recording, play_start_time, rec_start_time,
                   rec_channels, play_channels, recv, playv, silence, timer,
                   rec_stats, play_stats, queue, delayed, aborted, histogram,
                   num_timers>>

\* AudioDeviceBuffer::StartPlayout
StartPlayout ==
    /\ ~aborted
    /\ last_call' = Call("StartPlayout", 0)
    /\ ret' = 0 /\ transport_calls' = <<>>
    /\ IF playing
       THEN UNCHANGED <<playout_thread_checker, queue, num_timers,
                        play_start_time, playing>>
       ELSE /\ playout_thread_checker' = Detached
            /\ queue' =
                 LET q == PostTask(queue, Task("ResetPlayStats", 0, 0))
                 IN IF ~recording THEN StartPeriodicLogging(q) ELSE q
            /\ num_timers' = IF ~recording THEN num_timers + 1 ELSE num_timers
            /\ play_start_time' = now
            /\ playing' = TRUE
    /\ UNCHANGED <<now, audio_transport_cb, recording, rec_start_time,
                   rec_channels, play_channels, recv, play_buffer,
                   play_stat_count, audio_out, num_play_calls, silence, timer,
                   rec_stats, play_stats, delayed, aborted, histogram>>

\* StartRecording without its early return.
StartRecording_NoEarlyReturn ==
    /\ ~aborted
    /\ last_call' = Call("StartRecording", 0)
    /\ ret' = 0 /\ transport_calls' = <<>>
    /\ recording_thread_checker' = Detached
    /\ queue' =
         LET q == PostTask(queue, Task("ResetRecStats", 0, 0))
         IN IF ~playing THEN StartPeriodicLogging(q) ELSE q
    /\ num_timers' = IF ~playing THEN num_timers + 1 ELSE num_timers
    /\ rec_start_time' = now
    /\ recording' = TRUE
    /\ only_silence_recorded' = TRUE
    /\ session_nonzero' = FALSE
    /\ session_nonzero_measured' = FALSE
    /\ session_calls' = 0 /\ session_samples' = 0
    /\ UNCHANGED <<now, audio_transport_cb, playing, play_start_time,
                   rec_channels, play_channels, rec_buffer, rec_stat_count,
                   new_mic_level, num_rec_calls, playv, timer, rec_stats,
                   play_stats, delayed, aborted, histogram>>

\* AudioDeviceBuffer::StartRecording
StartRecording ==
    /\ ~aborted
    /\ last_call' = Call("StartRecording", 0)
    /\ ret' = 0 /\ transport_calls' = <<>>
    /\ IF recording
       THEN UNCHANGED <<recording_thread_checker, queue, num_timers,
                        rec_start_time, recording, silence>>
       ELSE /\ recording_thread_checker' = Detached
            /\ queue' =
                 LET q == PostTask(queue, Task("ResetRecStats", 0, 0))
                 IN IF ~playing THEN StartPeriodicLogging(q) ELSE q
            /\ num_timers' = IF ~playing THEN num_timers + 1 ELSE num_timers
            /\ rec_start_time' = now
            /\ recording' = TRUE
            /\ only_silence_recorded' = TRUE
            /\ session_nonzero' = FALSE
            /\ session_nonzero_measured' = FALSE
            /\ session_calls' = 0 /\ session_samples' = 0
    /\ UNCHANGED <<now, audio_transport_cb, playing, play_start_time,
                   rec_channels, play_channels, rec_buffer, rec_stat_count,
                   new_mic_level, num_rec_calls, playv, timer, rec_stats,
                   play_stats, delayed, aborted, histogram>>

\* AudioDeviceBuffer::StopPlayout
StopPlayout ==
    /\ ~aborted
    /\ last_call' = Call("StopPlayout", 0)
    /\ ret' = 0 /\ transport_calls' = <<>>
    /\ IF ~playing
       THEN UNCHANGED <<playing, queue>>
       ELSE /\ playing' = FALSE
            /\ queue' = IF ~recording THEN StopPeriodicLogging(queue)
                        ELSE queue
    /\ UNCHANGED <<now, audio_transport_cb, recording, play_start_time,
                   rec_start_time, rec_channels, play_channels, recv, playv,
                   silence, timer, rec_stats, play_stats, delayed, aborted,
                   histogram, num_timers>>

\* rtc::TimeSince
TimeSince(earlier) == now - earlier

\* The threshold taken in seconds, the elapsed time in milliseconds.
IsValidCallTime_Seconds(time_since_start) ==
    time_since_start > kMinValidCallTimeTimeInSeconds

\* AudioDeviceBuffer::StopRecording, the test that qualifies the session as a
\* call
IsValidCallTime(time_since_start) ==
    time_since_start > kMinValidCallTimeTimeInMilliseconds

\* StopRecording without its early return.
StopRecording_NoEarlyReturn ==
    /\ ~aborted
    /\ last_call' = Call("StopRecording", 0)
    /\ ret' = 0 /\ transport_calls' = <<>>
    /\ recording' = FALSE
    /\ queue' = IF ~playing THEN StopPeriodicLogging(queue) ELSE queue
    /\ histogram' = IF IsValidCallTime(TimeSince(rec_start_time))
                    THEN Append(histogram, only_silence_recorded)
                    ELSE histogram
    /\ UNCHANGED <<now, audio_transport_cb, playing, play_start_time,
                   rec_start_time, rec_channels, play_channels, recv, playv,
                   silence, timer, rec_stats, play_stats, delayed, aborted,
                   num_timers>>

\* AudioDeviceBuffer::StopRecording
StopRecording ==
    /\ ~aborted
    /\ last_call' = Call("StopRecording", 0)
    /\ ret' = 0 /\ transport_calls' = <<>>
    /\ IF ~recording
       THEN UNCHANGED <<recording, queue, histogram>>
       ELSE /\ recording' = FALSE
            /\ queue' = IF ~playing THEN StopPeriodicLogging(queue)
                        ELSE queue
            /\ LET time_since_start == TimeSince(rec_start_time)
               IN histogram' =
                    IF IsValidCallTime(time_since_start)
                    THEN Append(histogram, only_silence_recorded)
                    ELSE histogram
    /\ UNCHANGED <<now, audio_transport_cb, playing, play_start_time,
                   rec_start_time, rec_channels, play_channels, recv, playv,
                   silence, timer, rec_stats, play_stats, delayed, aborted,
                   num_timers>>

\* AudioDeviceBuffer::SetRecordingChannels
SetRecordingChannels(channels) ==
    /\ ~aborted
    /\ last_call' = Call("SetRecordingChannels", channels)
    /\ ret' = 0 /\ transport_calls' = <<>>
    /\ rec_channels' = channels
    /\ UNCHANGED <<now, audio_transport_cb, playing, recording,
                   play_start_time, rec_start_time, play_channels, recv, playv,
                   silence, timer, rec_stats, play_stats, queue, delayed,
                   aborted, histogram, num_timers>>

\* AudioDeviceBuffer::SetPlayoutChannels
SetPlayoutChannels(channels) ==
    /\ ~aborted
    /\ last_call' = Call("SetPlayoutChannels", channels)
    /\ ret' = 0 /\ transport_calls' = <<>>
    /\ play_channels' = channels
    /\ UNCHANGED <<now, audio_transport_cb, playing, recording,
                   play_start_time, rec_start_time, rec_channels, recv, playv,
                   silence, timer, rec_stats, play_stats, queue, delayed,
                   aborted, histogram, num_timers>>

\* ------------------------------------------------------------ audio data
\* The buffers a caller can hand in: size int16 samples.
AudioBuffers(size) == [1..size -> Samples]

\* Those whose samples are all the same.
UniformBuffers(size) == {[i \in 1..size |-> v] : v \in Samples}

\* WebRtcSpl_MaxAbsValueW16: the largest absolute value of the vector,
\* saturated to the int16 range (abs(-32768) gives 32767).
MaxAbsValueW16(vector) ==
    LET mags == {Abs(vector[i]) : i \in 1..Len(vector)} \cup {0}
        maximum == CHOOSE m \in mags : \A x \in mags : x <= m
    IN Min(maximum, kInt16Max)

\* A checker that accepts every thread.
CalledOnValidThread_AnyThread(checker, t) == TRUE

\* RTC_DCHECK_RUN_ON(&checker) called on thread t: a detached checker binds to
\* the calling thread, a bound one accepts only its thread.
CalledOnValidThread(checker, t) == checker = Detached \/ checker = t

\* The level derived one call late.
IsLevelCall_OffByOne(stat_count) == stat_count + 1 > kStatCallInterval

\* The ++count >= 50 test of SetRecordedBuffer and RequestPlayoutData: whether
\* this call is one on which the level is derived.
IsLevelCall(stat_count) == stat_count + 1 >= kStatCallInterval

\* rtc::Buffer::SetSize: the old content is kept up to the new size, what is
\* added is uninitialized: whatever the memory held, silence or not.
SetSize(buffer, size) ==
    {[i \in 1..size |-> IF i <= Len(buffer) THEN buffer[i] ELSE v] :
        v \in Samples}

\* The size computed without the channel count.
SizeInBytes_Mono(num_samples, channels) == num_samples * kBytesPerInt16

\* The sample count computed without the channel count.
SamplesInBuffer_Int16s(size_in_bytes, bytes_per_sample) ==
    size_in_bytes \div kBytesPerInt16

\* The result forced to zero when the transport reports a failure.
FramesReturned_ZeroOnFailure(res, num_samples_out) ==
    IF res # 0 THEN 0 ELSE num_samples_out

\* size_in_bytes of SetRecordedBuffer and RequestPlayoutData
SizeInBytes(num_samples, channels) == num_samples * channels * kBytesPerInt16

\* num_samples of DeliverRecordedData and the result of GetPlayoutData: the
\* buffer's size divided by the bytes per sample.  A division by zero is
\* undefined; where it does not trap the quotient is taken to be 0.
SamplesInBuffer(size_in_bytes, bytes_per_sample) ==
    IF bytes_per_sample = 0 THEN 0 ELSE size_in_bytes \div bytes_per_sample

\* The result of RequestPlayoutData once the transport was asked:
\* static_cast<int32_t>(num_samples_out), whatever res the transport returned.
FramesReturned(res, num_samples_out) == num_samples_out

\* A fault of the process (failed DCHECK): nothing else changes.
Abort(call) ==
    /\ aborted' = TRUE
    /\ last_call' = call
    /\ UNCHANGED <<now, ctl, recv, playv, silence, timer, rec_stats,
                   play_stats, ret, transport_calls, queue, delayed,
                   histogram, num_timers>>

\* ------------------------------------------------- native recording thread
\* SetRecordedBuffer with a call counter that is never taken back to zero.
SetRecordedBuffer_NoWrap(t, audio_buffer, num_samples) ==
    /\ ~aborted
    /\ Len(audio_buffer) * kBytesPerInt16 =
         SizeInBytes(num_samples, rec_channels)
    /\ IF ~CalledOnValidThread(recording_thread_checker, t)
       THEN Abort(Call("SetRecordedBuffer", num_samples))
       ELSE
         LET measure == IsLevelCall(rec_stat_count)
             max_abs == IF measure THEN MaxAbsValueW16(audio_buffer) ELSE 0
             nonzero == \E i \in 1..Len(audio_buffer) : audio_buffer[i] # 0
         IN
         /\ recording_thread_checker' = t
         /\ rec_buffer' = audio_buffer
         /\ rec_stat_count' = rec_stat_count + 1
         /\ only_silence_recorded' =
              IF measure /\ max_abs > 0 THEN FALSE ELSE only_silence_recorded
         /\ queue' = PostTask(queue, Task("UpdateRecStats", max_abs,
                                          num_samples))
         /\ last_call' = Call("SetRecordedBuffer", num_samples)
         /\ ret' = 0 /\ transport_calls' = <<>>
         /\ num_rec_calls' = num_rec_calls + 1
         /\ session_calls' = session_calls + 1
         /\ session_samples' = session_samples + num_samples
         /\ session_nonzero' = (session_nonzero \/ nonzero)
         /\ session_nonzero_measured' =
              (session_nonzero_measured \/ (nonzero /\ measure))
         /\ UNCHANGED <<now, ctl, new_mic_level, playv, timer, rec_stats,
                        play_stats, delayed, aborted, histogram, num_timers>>

\* AudioDeviceBuffer::SetRecordedBuffer, called on thread t with a buffer of
\* num_samples * rec_channels_ samples
SetRecordedBuffer(t, audio_buffer, num_samples) ==
    /\ ~aborted
    /\ Len(audio_buffer) * kBytesPerInt16 =
         SizeInBytes(num_samples, rec_channels)
    /\ IF ~CalledOnValidThread(recording_thread_checker, t)
       THEN Abort(Call("SetRecordedBuffer", num_samples))
       ELSE
         LET measure == IsLevelCall(rec_stat_count)
             max_abs == IF measure THEN MaxAbsValueW16(audio_buffer) ELSE 0
             nonzero == \E i \in 1..Len(audio_buffer) : audio_buffer[i] # 0
         IN
         /\ recording_thread_checker' = t
         /\ rec_buffer' = audio_buffer
         /\ rec_stat_count' = IF measure THEN 0 ELSE rec_stat_count + 1
         /\ only_silence_recorded' =
              IF measure /\ max_abs > 0 THEN FALSE ELSE only_silence_recorded
         /\ queue' = PostTask(queue, Task("UpdateRecStats", max_abs,
                                          num_samples))
         /\ last_call' = Call("SetRecordedBuffer", num_samples)
         /\ ret' = 0 /\ transport_calls' = <<>>
         /\ num_rec_calls' = num_rec_calls + 1
         /\ session_calls' = session_calls + 1
         /\ session_samples' = session_samples + num_samples
         /\ session_nonzero' = (session_nonzero \/ nonzero)
         /\ session_nonzero_measured' =
              (session_nonzero_measured
               \/ (nonzero /\ rec_stat_count = kStatCallInterval - 1))
         /\ UNCHANGED <<now, ctl, new_mic_level, playv, timer, rec_stats,
                        play_stats, delayed, aborted, histogram, num_timers>>

\* DeliverRecordedData storing the level whatever the transport returns.
DeliverRecordedData_StoresAlways(t, res, mic_level) ==
    /\ ~aborted
    /\ IF ~CalledOnValidThread(recording_thread_checker, t)
       THEN Abort(Call("DeliverRecordedData", 0))
       ELSE IF audio_transport_cb = NULL
       THEN /\ recording_thread_checker' = t
            /\ last_call' = Call("DeliverRecordedData", 0)
            /\ ret' = 0 /\ transport_calls' = <<>>
            /\ UNCHANGED <<now, ctl, rec_buffer, rec_stat_count,
                           new_mic_level, num_rec_calls, playv, silence, timer,
                           rec_stats, play_stats, queue, delayed, aborted,
                           histogram, num_timers>>
       ELSE
         LET rec_bytes_per_sample == rec_channels * kBytesPerInt16
             size == Len(rec_buffer) * kBytesPerInt16
         IN
         \/ /\ rec_bytes_per_sample = 0
            /\ Abort(Call("DeliverRecordedData", 0))
         \/ LET num_samples == SamplesInBuffer(size, rec_bytes_per_sample)
            IN
            /\ recording_thread_checker' = t
            /\ transport_calls' =
                 << [fn |-> "RecordedDataIsAvailable",
                     num_samples |-> num_samples,
                     bytes_per_sample |-> rec_bytes_per_sample,
                     channels |-> rec_channels,
                     res |-> res, out |-> mic_level] >>
            /\ new_mic_level' = mic_level
            /\ last_call' = Call("DeliverRecordedData", 0)
            /\ ret' = 0
            /\ UNCHANGED <<now, ctl, rec_buffer, rec_stat_count,
                           num_rec_calls, playv, silence, timer, rec_stats,
                           play_stats, queue, delayed, aborted, histogram,
                           num_timers>>

\* AudioDeviceBuffer::DeliverRecordedData, called on thread t; res and
\* new_mic_level are what AudioTransport::RecordedDataIsAvailable gives back.
\* With rec_channels_ = 0 the division by rec_bytes_per_sample is undefined:
\* it traps, or yields some quotient (0 here).
DeliverRecordedData(t, res, mic_level) ==
    /\ ~aborted
    /\ IF ~CalledOnValidThread(recording_thread_checker, t)
       THEN Abort(Call("DeliverRecordedData", 0))
       ELSE IF audio_transport_cb = NULL
       THEN /\ recording_thread_checker' = t
            /\ last_call' = Call("DeliverRecordedData", 0)
            /\ ret' = 0 /\ transport_calls' = <<>>
            /\ UNCHANGED <<now, ctl, rec_buffer, rec_stat_count,
                           new_mic_level, num_rec_calls, playv, silence, timer,
                           rec_stats, play_stats, queue, delayed, aborted,
                           histogram, num_timers>>
       ELSE
         LET rec_bytes_per_sample == rec_channels * kBytesPerInt16
             size == Len(rec_buffer) * kBytesPerInt16
         IN
         \/ /\ rec_bytes_per_sample = 0
            /\ Abort(Call("DeliverRecordedData", 0))
         \/ LET num_samples == SamplesInBuffer(size, rec_bytes_per_sample)
            IN
            /\ recording_thread_checker' = t
            /\ transport_calls' =
                 << [fn |-> "RecordedDataIsAvailable",
                     num_samples |-> num_samples,
                     bytes_per_sample |-> rec_bytes_per_sample,
                     channels |-> rec_channels,
                     res |-> res, out |-> mic_level] >>
            /\ new_mic_level' = IF res # -1 THEN mic_level ELSE new_mic_level
            /\ last_call' = Call("DeliverRecordedData", 0)
            /\ ret' = 0
            /\ UNCHANGED <<now, ctl, rec_buffer, rec_stat_count,
                           num_rec_calls, playv, silence, timer, rec_stats,
                           play_stats, queue, delayed, aborted, histogram,
                           num_timers>>

\* --------------------------------------------------- native playout thread
\* AudioDeviceBuffer::RequestPlayoutData, called on thread t; res,
\* num_samples_out and the content of the buffer are what
\* AudioTransport::NeedMorePlayData gives back.
RequestPlayoutData(t, num_samples, res, num_samples_out, filled) ==
    /\ ~aborted
    /\ IF ~CalledOnValidThread(playout_thread_checker, t)
       THEN Abort(Call("RequestPlayoutData", num_samples))
       ELSE
         LET play_bytes_per_sample == play_channels * kBytesPerInt16
             size_in_bytes == SizeInBytes(num_samples, play_channels)
             resized == IF Len(play_buffer) * kBytesPerInt16 # size_in_bytes
                        THEN SetSize(play_buffer,
                                     size_in_bytes \div kBytesPerInt16)
                        ELSE {play_buffer}
         IN
         /\ playout_thread_checker' = t
         /\ last_call' = Call("RequestPlayoutData", num_samples)
         /\ IF audio_transport_cb = NULL
            THEN /\ play_buffer' \in resized
                 /\ ret' = 0 /\ transport_calls' = <<>>
                 /\ UNCHANGED <<play_stat_count, queue, num_play_calls>>
            ELSE
              /\ Len(filled) = size_in_bytes \div kBytesPerInt16
              /\ play_buffer' = filled
              /\ transport_calls' =
                   << [fn |-> "NeedMorePlayData",
                       num_samples |-> num_samples,
                       bytes_per_sample |-> play_bytes_per_sample,
                       channels |-> play_channels,
                       res |-> res, out |-> num_samples_out] >>
              /\ LET measure == IsLevelCall(play_stat_count)
                     max_abs == IF measure THEN MaxAbsValueW16(filled) ELSE 0
                 IN
                 /\ play_stat_count' =
                      IF measure THEN 0 ELSE play_stat_count + 1
                 /\ queue' = PostTask(queue, Task("UpdatePlayStats", max_abs,
                                                  num_samples_out))
              /\ ret' = FramesReturned(res, num_samples_out)
              /\ num_play_calls' = num_play_calls + 1
         /\ UNCHANGED <<now, ctl, recv, audio_out, silence, timer, rec_stats,
                        play_stats, delayed, aborted, histogram, num_timers>>

\* GetPlayoutData without its check of the buffer's size.
GetPlayoutData_NoSizeCheck(t) ==
    /\ ~aborted
    /\ IF ~CalledOnValidThread(playout_thread_checker, t)
       THEN Abort(Call("GetPlayoutData", 0))
       ELSE
         /\ playout_thread_checker' = t
         /\ audio_out' = play_buffer
         /\ ret' = SamplesInBuffer(Len(play_buffer) * kBytesPerInt16,
                                   play_channels * kBytesPerInt16)
         /\ last_call' = Call("GetPlayoutData", 0)
         /\ transport_calls' = <<>>
         /\ UNCHANGED <<now, ctl, recv, play_buffer, play_stat_count,
                        num_play_calls, silence, timer, rec_stats, play_stats,
                        queue, delayed, aborted, histogram, num_timers>>

\* AudioDeviceBuffer::GetPlayoutData, called on thread t.  With
\* play_channels_ = 0 and a non-empty buffer the division is undefined: it
\* traps, or yields some quotient (0 here).
GetPlayoutData(t) ==
    /\ ~aborted
    /\ IF \/ ~CalledOnValidThread(playout_thread_checker, t)
          \/ ~(Len(play_buffer) * kBytesPerInt16 > 0)
       THEN Abort(Call("GetPlayoutData", 0))
       ELSE
         LET play_bytes_per_sample == play_channels * kBytesPerInt16
         IN
         \/ /\ play_bytes_per_sample = 0
            /\ Abort(Call("GetPlayoutData", 0))
         \/ /\ playout_thread_checker' = t
            /\ audio_out' = play_buffer
            /\ ret' = SamplesInBuffer(Len(play_buffer) * kBytesPerInt16,
                                      play_bytes_per_sample)
            /\ last_call' = Call("GetPlayoutData", 0)
            /\ transport_calls' = <<>>
            /\ UNCHANGED <<now, ctl, recv, play_buffer, play_stat_count,
                           num_play_calls, silence, timer, rec_stats,
                           play_stats, queue, delayed, aborted, histogram,
                           num_timers>>

\* ------------------------------------------------- tasks on the task queue
\* One more round skipped after LOG_START.
LogsThisRound_SkipTwo(reports, time_since_last) ==
    reports > 2 /\ time_since_last > 0

\* AudioDeviceBuffer::LogStats: whether this round prints the statistics
LogsThisRound(reports, time_since_last) == reports > 1 /\ time_since_last > 0

\* AudioDeviceBuffer::LogStats(state), run at time now; pending are the
\* delayed tasks that remain when it runs.
LogStats(state, pending) ==
    IF state = LOG_STOP
    THEN /\ delayed' = pending
         /\ UNCHANGED <<timer, last_rec_callbacks, last_rec_samples,
                        max_rec_level, last_play_callbacks, last_play_samples,
                        max_play_level>>
    ELSE
      LET now_time == now
          reports0 == IF state = LOG_START THEN 0 ELSE num_stat_reports
          last0 == IF state = LOG_START THEN now_time
                   ELSE last_timer_task_time
          next_callback_time == now_time + kTimerIntervalInMilliseconds
          time_since_last == now_time - last0
          time_to_wait_ms == next_callback_time - now
      IN
      /\ last_timer_task_time' = now_time
      /\ num_stat_reports' = reports0 + 1
      /\ log_reports' = IF LogsThisRound(reports0 + 1, time_since_last)
                        THEN log_reports + 1 ELSE log_reports
      /\ log_start_time' = IF state = LOG_START THEN now_time
                           ELSE log_start_time
      /\ last_rec_callbacks' = rec_callbacks
      /\ last_play_callbacks' = play_callbacks
      /\ last_rec_samples' = rec_samples
      /\ last_play_samples' = play_samples
      /\ max_rec_level' = 0
      /\ max_play_level' = 0
      /\ delayed' = PostDelayedTask(pending, time_to_wait_ms)

\* The task queue runs the LogStats(LOG_START / LOG_STOP) task at its head.
RunLogStats ==
    /\ ~aborted
    /\ queue # <<>> /\ Head(queue).fn = "LogStats"
    /\ queue' = Tail(queue)
    /\ LogStats(Head(queue).a, delayed)
    /\ UNCHANGED <<now, ctl, recv, playv, silence, obs, rec_callbacks,
                   rec_samples, play_callbacks, play_samples, aborted,
                   histogram, num_timers>>

\* The task queue runs a delayed LogStats(LOG_ACTIVE) task whose delay expired.
RunDelayedLogStats ==
    /\ ~aborted
    /\ delayed # <<>> /\ Head(delayed) <= now
    /\ LogStats(LOG_ACTIVE, Tail(delayed))
    /\ UNCHANGED <<now, ctl, recv, playv, silence, obs, rec_callbacks,
                   rec_samples, play_callbacks, play_samples, queue, aborted,
                   histogram, num_timers>>

\* ResetRecStats clearing only the values of the last report and the level.
ResetRecStats_KeepsTotals ==
    /\ ~aborted
    /\ queue # <<>> /\ Head(queue).fn = "ResetRecStats"
    /\ queue' = Tail(queue)
    /\ last_rec_callbacks' = 0
    /\ last_rec_samples' = 0
    /\ max_rec_level' = 0
    /\ UNCHANGED <<now, ctl, recv, playv, silence, timer, play_stats, obs,
                   rec_callbacks, rec_samples, delayed, aborted, histogram,
                   num_timers>>

\* AudioDeviceBuffer::ResetRecStats, run by the task queue
ResetRecStats ==
    /\ ~aborted
    /\ queue # <<>> /\ Head(queue).fn = "ResetRecStats"
    /\ queue' = Tail(queue)
    /\ rec_callbacks' = 0
    /\ last_rec_callbacks' = 0
    /\ rec_samples' = 0
    /\ last_rec_samples' = 0
    /\ max_rec_level' = 0
    /\ UNCHANGED <<now, ctl, recv, playv, silence, timer, play_stats, obs,
                   delayed, aborted, histogram, num_timers>>

\* ResetPlayStats clearing the call counter of the playout thread as well.
ResetPlayStats_ClearsCallCounter ==
    /\ ~aborted
    /\ queue # <<>> /\ Head(queue).fn = "ResetPlayStats"
    /\ queue' = Tail(queue)
    /\ play_callbacks' = 0
    /\ last_play_callbacks' = 0
    /\ play_samples' = 0
    /\ last_play_samples' = 0
    /\ max_play_level' = 0
    /\ play_stat_count' = 0
    /\ UNCHANGED <<now, ctl, recv, play_buffer, playout_thread_checker,
                   audio_out, num_play_calls, silence, timer, rec_stats, obs,
                   delayed, aborted, histogram, num_timers>>

\* AudioDeviceBuffer::ResetPlayStats, run by the task queue
ResetPlayStats ==
    /\ ~aborted
    /\ queue # <<>> /\ Head(queue).fn = "ResetPlayStats"
    /\ queue' = Tail(queue)
    /\ play_callbacks' = 0
    /\ last_play_callbacks' = 0
    /\ play_samples' = 0
    /\ last_play_samples' = 0
    /\ max_play_level' = 0
    /\ UNCHANGED <<now, ctl, recv, playv, silence, timer, rec_stats, obs,
                   delayed, aborted, histogram, num_timers>>

\* UpdateRecStats storing the level of the call, whatever the stored one is.
UpdateRecStats_StoresLevel ==
    /\ ~aborted
    /\ queue # <<>> /\ Head(queue).fn = "UpdateRecStats"
    /\ queue' = Tail(queue)
    /\ rec_callbacks' = rec_callbacks + 1
    /\ rec_samples' = rec_samples + Head(queue).b
    /\ max_rec_level' = Head(queue).a
    /\ UNCHANGED <<now, ctl, recv, playv, silence, timer, play_stats, obs,
                   last_rec_callbacks, last_rec_samples, delayed, aborted,
                   histogram, num_timers>>

\* AudioDeviceBuffer::UpdateRecStats(max_abs, num_samples), run by the task
\* queue
UpdateRecStats ==
    /\ ~aborted
    /\ queue # <<>> /\ Head(queue).fn = "UpdateRecStats"
    /\ queue' = Tail(queue)
    /\ LET max_abs == Head(queue).a
           num_samples == Head(queue).b
       IN /\ rec_callbacks' = rec_callbacks + 1
          /\ rec_samples' = rec_samples + num_samples
          /\ max_rec_level' = IF max_abs > max_rec_level THEN max_abs
                              ELSE max_rec_level
    /\ UNCHANGED <<now, ctl, recv, playv, silence, timer, play_stats, obs,
                   last_rec_callbacks, last_rec_samples, delayed, aborted,
                   histogram, num_timers>>

\* AudioDeviceBuffer::UpdatePlayStats(max_abs, num_samples), run by the task
\* queue
UpdatePlayStats ==
    /\ ~aborted
    /\ queue # <<>> /\ Head(queue).fn = "UpdatePlayStats"
    /\ queue' = Tail(queue)
    /\ LET max_abs == Head(queue).a
           num_samples == Head(queue).b
       IN /\ play_callbacks' = play_callbacks + 1
          /\ play_samples' = play_samples + num_samples
          /\ max_play_level' = IF max_abs > max_play_level THEN max_abs
                               ELSE max_play_level
    /\ UNCHANGED <<now, ctl, recv, playv, silence, timer, rec_stats, obs,
                   last_play_callbacks, last_play_samples, delayed, aborted,
                   histogram, num_timers>>

\* ------------------------------------------------------------------ time
\* Time passes, by TimeStep or up to the expiry of the next delayed task, and
\* not beyond limit.
TickTo(limit) ==
    /\ ~aborted
    /\ delayed # <<>> => Head(delayed) > now
    /\ LET t == IF delayed # <<>> THEN Min(now + TimeStep, Head(delayed))
                ELSE now + TimeStep
       IN /\ t <= limit
          /\ now' = t
    /\ UNCHANGED <<ctl, recv, playv, silence, timer, rec_stats, play_stats,
                   obs, queue, delayed, aborted, histogram, num_timers>>

\* ---------------------------------------------------------- specifications
\* The callers keep the task queue short.
CanPost(n) == Len(queue) + n <= MaxQueue

\* A Start that would start the reporter is allowed MaxTimers times.
CanStart(active, other) ==
    active \/ (CanPost(2) /\ (other \/ num_timers < MaxTimers))

CanStop(active) == ~active \/ CanPost(1)

\* The control thread starts and stops the two directions.
StartStop ==
    \/ CanStart(playing, recording) /\ StartPlayout
    \/ CanStart(recording, playing) /\ StartRecording
    \/ CanStop(playing) /\ StopPlayout
    \/ CanStop(recording) /\ StopRecording

\* Spec: the life cycle of the two directions and of the periodic reporter.
Next ==
    \/ StartStop
    \/ RunLogStats
    \/ RunDelayedLogStats
    \/ ResetRecStats
    \/ ResetPlayStats
    \/ TickTo(MaxTime)

Spec == Init /\ [][Next]_vars

\* SpecControl: registration of the transport against the life cycle.
NextControl ==
    \/ \E cb \in Callbacks : RegisterAudioCallback(cb)
    \/ StartStop
    \/ RunLogStats
    \/ ResetRecStats
    \/ ResetPlayStats

SpecControl == Init /\ [][NextControl]_vars

\* SpecRec: the recording data path.
NextRec ==
    \/ \E cb \in Callbacks : RegisterAudioCallback(cb)
    \/ \E ch \in 0..MaxChannels : SetRecordingChannels(ch)
    \/ \E t \in Threads, n \in 1..MaxFrames :
         \E b \in UniformBuffers(n * rec_channels) :
           /\ num_rec_calls < MaxDataCalls /\ CanPost(1)
           /\ SetRecordedBuffer(t, b, n)
    \/ \E t \in Threads, res \in {0, -1}, mic \in MicLevels :
         DeliverRecordedData(t, res, mic)
    \/ UpdateRecStats

SpecRec == Init /\ [][NextRec]_vars

\* SpecPlay: the playout data path.
NextPlay ==
    \/ \E cb \in Callbacks : RegisterAudioCallback(cb)
    \/ \E ch \in 0..MaxChannels : SetPlayoutChannels(ch)
    \/ \E t \in Threads, n \in 1..MaxFrames, res \in {0, 1},
          out \in {0, MaxFrames} :
         \E b \in UniformBuffers(n * play_channels) :
           /\ num_play_calls < MaxDataCalls /\ CanPost(1)
           /\ RequestPlayoutData(t, n, res, out, b)
    \/ UpdatePlayStats

SpecPlay == Init /\ [][NextPlay]_vars

\* SpecSession and SpecIdem run sessions in which the level is derived.  The
\* level is derived on every kStatCallInterval-th call of SetRecordedBuffer
\* since construction, so the driver first delivers WarmCalls silent buffers,
\* one mono frame each, and the task queue keeps up with it; everything else
\* happens after that.
WarmCalls == kStatCallInterval - 2
Warm == num_rec_calls >= WarmCalls

WarmUp ==
    \/ rec_channels = 0 /\ SetRecordingChannels(1)
    \/ /\ rec_channels = 1 /\ queue = <<>>
       /\ SetRecordedBuffer("t1", <<0>>, 1)

\* The longest session of SpecSession.
MaxSessionTime == kMinValidCallTimeTimeInMilliseconds + TimeStep

\* SpecSession: recording sessions, their length and what they record.
NextSession ==
    \/ ~Warm /\ WarmUp
    \/ Warm /\ CanStart(recording, playing) /\ StartRecording
    \/ Warm /\ CanStop(recording) /\ StopRecording
    \/ \E b \in AudioBuffers(rec_channels) :
         /\ Warm /\ num_rec_calls < WarmCalls + MaxDataCalls /\ CanPost(1)
         /\ SetRecordedBuffer("t1", b, 1)
    \/ RunLogStats
    \/ RunDelayedLogStats
    \/ ResetRecStats
    \/ UpdateRecStats
    \/ Warm /\ TickTo(MaxSessionTime)

SpecSession == Init /\ [][NextSession]_vars

\* SpecIdem: both directions started again and again, within one TimeStep.
NextIdem ==
    \/ ~Warm /\ WarmUp
    \/ Warm /\ CanStart(playing, recording) /\ StartPlayout
    \/ Warm /\ CanStart(recording, playing) /\ StartRecording
    \/ \E b \in AudioBuffers(rec_channels) :
         /\ Warm /\ num_rec_calls < WarmCalls + MaxDataCalls /\ CanPost(1)
         /\ SetRecordedBuffer("t1", b, 1)
    \/ Warm /\ RequestPlayoutData("t1", 1, 0, 0, <<>>)
    \/ RunLogStats
    \/ ResetRecStats
    \/ ResetPlayStats
    \/ UpdateRecStats
    \/ Warm /\ TickTo(TimeStep)

SpecIdem == Init /\ [][NextIdem]_vars

\* SpecThread: the two native threads against the life cycle.  No transport is
\* registered; recording carries no channel (empty buffers), playout one, set
\* before anything else; the control and the recording thread wait for the
\* task queue to be idle.
NextThread ==
    \/ play_channels = 0 /\ SetPlayoutChannels(1)
    \/ play_channels = 1 /\ queue = <<>> /\ StartStop
    \/ \E t \in Threads :
         /\ play_channels = 1 /\ queue = <<>>
         /\ num_rec_calls < MaxDataCalls
         /\ SetRecordedBuffer(t, <<>>, 1)
    \/ \E t \in Threads : play_channels = 1 /\ DeliverRecordedData(t, 0, 0)
    \/ \E t \in Threads :
         play_channels = 1 /\ RequestPlayoutData(t, 1, 0, 0, <<>>)
    \/ \E t \in Threads : play_channels = 1 /\ GetPlayoutData(t)
    \/ RunLogStats
    \/ ResetRecStats
    \/ ResetPlayStats
    \/ UpdateRecStats

SpecThread == Init /\ [][NextThread]_vars

\* SpecGet: the playout buffer handed back to the native playout thread.  A
\* transport is registered before anything else and produces the frames it is
\* asked for; the playout thread waits for the task queue to be idle.
NextGet ==
    \/ \E cb \in Transports :
         audio_transport_cb = NULL /\ RegisterAudioCallback(cb)
    \/ \E ch \in 0..MaxChannels :
         audio_transport_cb # NULL /\ SetPlayoutChannels(ch)
    \/ \E n \in 1..MaxFrames :
         \E b \in UniformBuffers(n * play_channels) :
           /\ audio_transport_cb # NULL
           /\ num_play_calls < MaxDataCalls /\ queue = <<>>
           /\ RequestPlayoutData("t1", n, 0, n, b)
    \/ audio_transport_cb # NULL /\ GetPlayoutData("t1")
    \/ UpdatePlayStats

SpecGet == Init /\ [][NextGet]_vars

\* SpecLevel: long runs of data calls, one mono frame each, the two directions
\* in step (a recording call, then a playout call that reaches the
\* transport); the transport is registered and unregistered at will, and a
\* playout request made without it does not count.
LevelCalls == MaxLevelRounds * kStatCallInterval + 1

NextLevel ==
    \/ rec_channels = 0 /\ SetRecordingChannels(1)
    \/ play_channels = 0 /\ SetPlayoutChannels(1)
    \/ \E cb \in Callbacks :
         cb # audio_transport_cb /\ RegisterAudioCallback(cb)
    \/ \E b \in UniformBuffers(rec_channels) :
         /\ rec_channels = 1 /\ play_channels = 1 /\ queue = <<>>
         /\ num_rec_calls < LevelCalls /\ num_rec_calls <= num_play_calls
         /\ SetRecordedBuffer("t1", b, 1)
    \/ \E b \in UniformBuffers(play_channels) :
         /\ rec_channels = 1 /\ play_channels = 1 /\ queue = <<>>
         /\ audio_transport_cb = NULL \/ num_play_calls < num_rec_calls
         /\ RequestPlayoutData("t1", 1, 0, 1, b)
    \/ UpdateRecStats
    \/ UpdatePlayStats

SpecLevel == Init /\ [][NextLevel]_vars

\* SpecStats: the statistics of both directions over recording sessions in
\* which levels are derived; playout data flows without a playout session of
\* its own.  The driver first registers a transport, sets one channel per
\* direction and makes WarmCalls silent data calls per direction; the two
\* native threads stay in step (a recording call, then a playout call) and
\* wait for the task queue to be idle; after the warm-up every call carries
\* MaxFrames frames.  The clock runs for one interval of the reporter.
WarmBoth == num_rec_calls >= WarmCalls /\ num_play_calls >= WarmCalls

WarmUpBoth ==
    \/ \E cb \in Transports :
         audio_transport_cb = NULL /\ RegisterAudioCallback(cb)
    \/ /\ audio_transport_cb # NULL /\ rec_channels = 0
       /\ SetRecordingChannels(1)
    \/ rec_channels = 1 /\ play_channels = 0 /\ SetPlayoutChannels(1)
    \/ /\ play_channels = 1 /\ queue = <<>>
       /\ num_rec_calls <= num_play_calls
       /\ SetRecordedBuffer("t1", <<0>>, 1)
    \/ /\ play_channels = 1 /\ queue = <<>>
       /\ num_play_calls < num_rec_calls
       /\ RequestPlayoutData("t1", 1, 0, 1, <<0>>)

NextStats ==
    \/ ~WarmBoth /\ WarmUpBoth
    \/ WarmBoth /\ CanStart(recording, playing) /\ StartRecording
    \/ WarmBoth /\ CanStop(recording) /\ StopRecording
    \/ \E b \in UniformBuffers(MaxFrames * rec_channels) :
         /\ WarmBoth /\ queue = <<>>
         /\ num_rec_calls < WarmCalls + MaxStatCalls
         /\ num_rec_calls <= num_play_calls
         /\ SetRecordedBuffer("t1", b, MaxFrames)
    \/ \E b \in UniformBuffers(MaxFrames * play_channels) :
         /\ WarmBoth /\ queue = <<>>
         /\ num_play_calls < num_rec_calls
         /\ RequestPlayoutData("t1", MaxFrames, 0, MaxFrames, b)
    \/ RunLogStats
    \/ RunDelayedLogStats
    \/ ResetRecStats
    \/ UpdateRecStats
    \/ UpdatePlayStats
    \/ WarmBoth /\ TickTo(kTimerIntervalInMilliseconds)

SpecStats == Init /\ [][NextStats]_vars

\* SpecTick: sessions of both directions around the calls on which the level
\* is derived, after the warm-up of SpecStats and with the clock standing
\* still; the control thread and the native threads wait for the task queue
\* to be idle.
NextTick ==
    \/ ~WarmBoth /\ WarmUpBoth
    \/ WarmBoth /\ queue = <<>> /\ StartStop
    \/ \E b \in UniformBuffers(rec_channels) :
         /\ WarmBoth /\ queue = <<>>
         /\ num_rec_calls < WarmCalls + MaxDataCalls
         /\ num_rec_calls <= num_play_calls
         /\ SetRecordedBuffer("t1", b, 1)
    \/ \E b \in UniformBuffers(play_channels) :
         /\ WarmBoth /\ queue = <<>>
         /\ num_play_calls < num_rec_calls
         /\ RequestPlayoutData("t1", 1, 0, 1, b)
    \/ RunLogStats
    \/ ResetRecStats
    \/ ResetPlayStats
    \/ UpdateRecStats
    \/ UpdatePlayStats

SpecTick == Init /\ [][NextTick]_vars

\* ------------------------------------------------------------------ claims
\* Everything but the record of the last call and its result.
object_state == <<now, ctl, recv, playv, silence, timer, rec_stats,
                  play_stats, queue, delayed, aborted, histogram, num_timers>>

\* The last call was a StopRecording that ended a session: its LOG_STOP task
\* is still the last task posted.
SessionJustStopped ==
    /\ last_call.op = "StopRecording" /\ ~recording
    /\ queue # <<>>
    /\ queue[Len(queue)].fn = "LogStats" /\ queue[Len(queue)].a = LOG_STOP

\* C1: whenever every immediately posted task has run, a delayed
\* LogStats(LOG_ACTIVE) task is pending if and only if recording or playing.
C1_ReporterActiveIffDirectionActive ==
    queue = <<>> => ((delayed # <<>>) <=> (playing \/ recording))

\* C2: RegisterAudioCallback(cb) returns -1 and keeps the stored transport
\* while a direction is active, returns 0 and stores cb (null included)
\* otherwise; no step taken while a direction is active changes the transport.
C2_RegisterOnlyWhenInactive ==
    /\ [][\A cb \in Callbacks :
            RegisterAudioCallback(cb) =>
              IF playing \/ recording
              THEN ret' = -1 /\ audio_transport_cb' = audio_transport_cb
              ELSE ret' = 0 /\ audio_transport_cb' = cb]_vars
    /\ [][(playing \/ recording) =>
            audio_transport_cb' = audio_transport_cb]_vars

\* A registration of null was refused while a transport is stored and a
\* direction is active.
C2_Witness ==
    /\ last_call.op = "RegisterAudioCallback" /\ last_call.arg = NULL
    /\ ret = -1
    /\ audio_transport_cb \in Transports
    /\ playing \/ recording

\* C3: StartRecording while recording, and StartPlayout while playing, change
\* nothing: no task posted, thread checker not detached, start time, active
\* flags and only_silence_recorded_ as they were.
C3_SecondStartIsNoOp ==
    [][/\ (recording /\ StartRecording) => UNCHANGED object_state
       /\ (playing /\ StartPlayout) => UNCHANGED object_state]_vars

\* StartRecording was called in a session that is under way: time has passed
\* since its start, its thread is bound and it has recorded more than silence.
C3_Witness ==
    /\ last_call.op = "StartRecording" /\ recording
    /\ rec_start_time < now
    /\ recording_thread_checker = "t1"
    /\ ~only_silence_recorded

\* C4: a StopRecording that ends a session shorter than
\* kMinValidCallTimeTimeInMilliseconds adds no RecordedOnlyZeros sample.
C4_ShortSessionEmitsNothing ==
    [][(/\ recording
        /\ TimeSince(rec_start_time) < kMinValidCallTimeTimeInMilliseconds
        /\ StopRecording) => histogram' = histogram]_vars

\* A session that recorded more than silence was stopped after half the
\* threshold and nothing was emitted.
C4_Witness ==
    /\ SessionJustStopped
    /\ TimeSince(rec_start_time) > 0
    /\ TimeSince(rec_start_time) < kMinValidCallTimeTimeInMilliseconds
    /\ ~only_silence_recorded
    /\ histogram = <<>>

\* C5: a StopRecording that ends a session of at least
\* kMinValidCallTimeTimeInMilliseconds (exactly that long included) in which
\* every delivered sample was zero adds exactly one sample, TRUE.
C5_SilentSessionEmitsTrue ==
    [][(/\ recording
        /\ TimeSince(rec_start_time) >= kMinValidCallTimeTimeInMilliseconds
        /\ ~session_nonzero
        /\ StopRecording) => histogram' = Append(histogram, TRUE)]_vars

\* C6, as claimed: if any SetRecordedBuffer call of the session carried a
\* non-zero sample, the sample emitted at StopRecording is FALSE.
C6_AnyNonZeroSampleForcesFalse ==
    [][(/\ recording
        /\ IsValidCallTime(TimeSince(rec_start_time))
        /\ session_nonzero
        /\ StopRecording) => histogram' = Append(histogram, FALSE)]_vars

\* C6, amended: if a SetRecordedBuffer call of the session on which the level
\* is derived (one that takes the call counter to kStatCallInterval) carried a
\* non-zero sample, the sample emitted at StopRecording is FALSE.
C6_MeasuredNonZeroSampleForcesFalse ==
    [][(/\ recording
        /\ TimeSince(rec_start_time) > kMinValidCallTimeTimeInMilliseconds
        /\ session_nonzero_measured
        /\ StopRecording) => histogram' = Append(histogram, FALSE)]_vars

\* A session with a non-zero sample in a measured call was stopped and
\* emitted FALSE.
C6_Witness ==
    /\ SessionJustStopped
    /\ session_nonzero_measured
    /\ histogram # <<>> /\ histogram[Len(histogram)] = FALSE

\* The reporter was started once, T milliseconds ago, and every tick due by
\* now has run.
ReporterRanFor(T) ==
    /\ num_timers = 1
    /\ delayed # <<>> /\ Head(delayed) > now
    /\ now - log_start_time = T

\* The numbers of whole intervals of C7: T >= 20 s, T a multiple of 10 s.
Intervals == 2..(MaxTime \div kTimerIntervalInMilliseconds)

\* C7, as claimed: after T = k * 10 s, k >= 2, the reporter has printed k - 1
\* times.
C7_FirstIntervalSuppressed ==
    \A k \in Intervals :
        ReporterRanFor(k * kTimerIntervalInMilliseconds) =>
            log_reports = k - 1

\* C7, amended: after T = k * 10 s, k >= 2, the reporter has printed k times:
\* only the LOG_START round prints nothing.
C7_OneReportPerInterval ==
    \A k \in Intervals :
        ReporterRanFor(k * kTimerIntervalInMilliseconds) =>
            log_reports = k

\* The reporter ran for 20 s and printed twice.
C7_Witness ==
    /\ ReporterRanFor(2 * kTimerIntervalInMilliseconds)
    /\ log_reports = 2

\* C8: with a transport registered and rec_channels_ # 0, a
\* DeliverRecordedData that follows SetRecordedBuffer(data, N) on the same
\* thread calls RecordedDataIsAvailable exactly once, with N samples and
\* rec_channels_ * 2 bytes per sample.
C8_DeliversTheSamplesSet ==
    [][\A t \in Threads, res \in {0, -1}, mic \in MicLevels :
         (/\ last_call.op = "SetRecordedBuffer"
          /\ audio_transport_cb # NULL
          /\ rec_channels # 0
          /\ recording_thread_checker = t
          /\ DeliverRecordedData(t, res, mic))
         => /\ ~aborted'
            /\ Len(transport_calls') = 1
            /\ transport_calls'[1].fn = "RecordedDataIsAvailable"
            /\ transport_calls'[1].num_samples = last_call.arg
            /\ transport_calls'[1].bytes_per_sample =
                 rec_channels * kBytesPerInt16]_vars

\* MaxFrames frames of MaxChannels channels were delivered to the transport.
C8_Witness ==
    /\ last_call.op = "DeliverRecordedData" /\ ~aborted
    /\ Len(transport_calls) = 1
    /\ transport_calls[1].num_samples = MaxFrames
    /\ transport_calls[1].channels = MaxChannels
    /\ Len(rec_buffer) = MaxFrames * MaxChannels

\* C9, as claimed: without a transport RequestPlayoutData(N) returns 0, sizes
\* the playout buffer to N * play_channels_ * 2 bytes, does not fault, and
\* posts an UpdatePlayStats task with 0 samples.
C9_NoTransportStillPostsStats ==
    [][\A t \in Threads, n \in 1..MaxFrames :
         (/\ audio_transport_cb = NULL
          /\ CalledOnValidThread(playout_thread_checker, t)
          /\ RequestPlayoutData(t, n, 0, 0, <<>>))
         => /\ ret' = 0 /\ ~aborted'
            /\ Len(play_buffer') * kBytesPerInt16 =
                 n * play_channels * kBytesPerInt16
            /\ Len(queue') = Len(queue) + 1
            /\ queue'[Len(queue')].fn = "UpdatePlayStats"
            /\ queue'[Len(queue')].b = 0]_vars

\* C9, amended: without a transport RequestPlayoutData(N) returns 0, sizes the
\* playout buffer to N * play_channels_ * 2 bytes, does not fault, and posts
\* nothing: it returns before the level is derived and the task is posted.
C9_NoTransportPostsNothing ==
    [][\A t \in Threads, n \in 1..MaxFrames :
         (/\ audio_transport_cb = NULL
          /\ CalledOnValidThread(playout_thread_checker, t)
          /\ RequestPlayoutData(t, n, 0, 0, <<>>))
         => /\ ret' = 0 /\ ~aborted'
            /\ Len(play_buffer') * kBytesPerInt16 =
                 n * play_channels * kBytesPerInt16
            /\ transport_calls' = <<>>
            /\ UNCHANGED <<queue, play_stat_count, play_stats>>]_vars

\* MaxFrames frames of MaxChannels channels were requested without a
\* transport.
C9_Witness ==
    /\ last_call.op = "RequestPlayoutData" /\ last_call.arg = MaxFrames
    /\ ~aborted
    /\ audio_transport_cb = NULL
    /\ play_channels = MaxChannels
    /\ Len(play_buffer) = MaxFrames * MaxChannels
    /\ ret = 0 /\ queue = <<>>

\* C10, as claimed: when NeedMorePlayData returns non-zero,
\* RequestPlayoutData returns 0 whatever num_samples_out is, and does not
\* abort.
C10_FailureReturnsZero ==
    [][\A t \in Threads, n \in 1..MaxFrames, out \in {0, MaxFrames} :
         \A b \in UniformBuffers(n * play_channels) :
           (/\ audio_transport_cb # NULL
            /\ CalledOnValidThread(playout_thread_checker, t)
            /\ RequestPlayoutData(t, n, 1, out, b))
           => ret' = 0 /\ ~aborted']_vars

\* C10, amended: when NeedMorePlayData returns non-zero, RequestPlayoutData
\* returns the num_samples_out the transport left (0 if it left it untouched),
\* posts its stats update and does not abort.
C10_FailureReturnsSamplesOut ==
    [][\A t \in Threads, n \in 1..MaxFrames, out \in {0, MaxFrames} :
         \A b \in UniformBuffers(n * play_channels) :
           (/\ audio_transport_cb # NULL
            /\ CalledOnValidThread(playout_thread_checker, t)
            /\ RequestPlayoutData(t, n, 1, out, b))
           => /\ ret' = out /\ ~aborted'
              /\ Len(queue') = Len(queue) + 1
              /\ queue'[Len(queue')].fn = "UpdatePlayStats"
              /\ queue'[Len(queue')].b = out]_vars

\* The transport failed and left MaxFrames in num_samples_out, which was
\* returned.
C10_Witness ==
    /\ last_call.op = "RequestPlayoutData" /\ ~aborted
    /\ Len(transport_calls) = 1
    /\ transport_calls[1].res # 0
    /\ transport_calls[1].out = MaxFrames
    /\ ret = MaxFrames

\* The data calls of SpecThread made on thread t, per direction.
RecDataCall(t) ==
    SetRecordedBuffer(t, <<>>, 1) \/ DeliverRecordedData(t, 0, 0)

PlayDataCall(t) ==
    RequestPlayoutData(t, 1, 0, 0, <<>>) \/ GetPlayoutData(t)

\* Everything a refused call must leave alone.
guarded_state == <<now, ctl, recv, playv, silence, timer, rec_stats,
                   play_stats, ret, transport_calls, queue, delayed,
                   histogram, num_timers>>

\* C11: a Start that activates a direction detaches its thread checker; a
\* data call of the direction on thread t binds a detached checker to t and
\* keeps one bound to t; a data call on another thread than the bound one
\* aborts and changes nothing else; a checker is detached only by a Start that
\* activates its direction (not by a Stop, not by a Start of an active
\* direction) and is bound only when detached.
C11_GuardBoundPerStart ==
    [][/\ (~recording /\ StartRecording)
            => recording_thread_checker' = Detached
       /\ (~playing /\ StartPlayout)
            => playout_thread_checker' = Detached
       /\ \A t \in Threads :
            /\ (recording_thread_checker \in {Detached, t} /\ RecDataCall(t))
                 => ~aborted' /\ recording_thread_checker' = t
            /\ (playout_thread_checker \in {Detached, t} /\ PlayDataCall(t)
                 /\ ~aborted')
                 => playout_thread_checker' = t
            /\ (recording_thread_checker \notin {Detached, t}
                 /\ RecDataCall(t))
                 => aborted' /\ UNCHANGED guarded_state
            /\ (playout_thread_checker \notin {Detached, t}
                 /\ PlayDataCall(t))
                 => aborted' /\ UNCHANGED guarded_state
       /\ recording_thread_checker' # recording_thread_checker
            => IF recording_thread_checker' = Detached
               THEN ~recording /\ StartRecording
               ELSE recording_thread_checker = Detached
       /\ playout_thread_checker' # playout_thread_checker
            => IF playout_thread_checker' = Detached
               THEN ~playing /\ StartPlayout
               ELSE playout_thread_checker = Detached]_vars

\* After a stop and a restart of the reporter (every direction was stopped in
\* between) recording is bound to t2, playout to t1, and a SetRecordedBuffer
\* from the other thread was refused.
C11_Witness ==
    /\ aborted /\ last_call.op = "SetRecordedBuffer"
    /\ recording /\ num_timers = MaxTimers
    /\ recording_thread_checker = "t2"
    /\ playout_thread_checker = "t1"

\* C12: StopRecording while not recording, and StopPlayout while not playing,
\* change nothing: no task posted, no RecordedOnlyZeros sample, active flags,
\* start times and only_silence_recorded_ as they were.
C12_StopWhenInactiveIsNoOp ==
    [][/\ (~recording /\ StopRecording) => UNCHANGED object_state
       /\ (~playing /\ StopPlayout) => UNCHANGED object_state]_vars

\* StopRecording was called before any Start, more than
\* kMinValidCallTimeTimeInMilliseconds after rec_start_time_ was initialized:
\* nothing was posted or emitted.
C12_Witness ==
    /\ last_call.op = "StopRecording" /\ num_timers = 0
    /\ ~recording /\ ~playing
    /\ IsValidCallTime(TimeSince(rec_start_time))
    /\ queue = <<>> /\ histogram = <<>>

C14_StoppedTickDoesNotReschedule ==
    [][(/\ ~playing /\ ~recording /\ queue = <<>>
        /\ RunDelayedLogStats)
       => /\ Len(delayed') < Len(delayed)
          /\ log_reports' = log_reports]_vars

\* The level carried by the task posted last.
PostedLevel(q) == q[Len(q)].a

\* C15, as claimed: every SetRecordedBuffer call and every RequestPlayoutData
\* call advances its direction's call counter by one modulo
\* kStatCallInterval, so that the level is derived on the calls numbered 50,
\* 100, 150, ... of the direction; the task posted carries the level of the
\* buffer on those calls and 0 on every other.
C15_LevelOnEveryFiftiethCall ==
    /\ [](rec_stat_count \in 0..(kStatCallInterval - 1))
    /\ [](play_stat_count \in 0..(kStatCallInterval - 1))
    /\ [][\A b \in UniformBuffers(1) :
            /\ SetRecordedBuffer("t1", b, 1) =>
                 /\ rec_stat_count' =
                      (rec_stat_count + 1) % kStatCallInterval
                 /\ PostedLevel(queue') =
                      IF rec_stat_count' = 0 THEN MaxAbsValueW16(b) ELSE 0
            /\ RequestPlayoutData("t1", 1, 0, 1, b) =>
                 /\ play_stat_count' =
                      (play_stat_count + 1) % kStatCallInterval
                 /\ PostedLevel(queue') =
                      IF play_stat_count' = 0 THEN MaxAbsValueW16(b)
                      ELSE 0]_vars

\* C15, amended: the counters stay in 0..49 and count, modulo
\* kStatCallInterval, the SetRecordedBuffer calls and the RequestPlayoutData
\* calls that reached a transport; each such call posts a task that carries
\* the level of the buffer when it takes the counter back to 0 and 0
\* otherwise; a RequestPlayoutData call without a transport does not count and
\* posts nothing.
C15_LevelOnEveryFiftiethCountedCall ==
    /\ [](rec_stat_count \in 0..(kStatCallInterval - 1))
    /\ [](play_stat_count \in 0..(kStatCallInterval - 1))
    /\ [](rec_stat_count = num_rec_calls % kStatCallInterval)
    /\ [](play_stat_count = num_play_calls % kStatCallInterval)
    /\ [][\A b \in UniformBuffers(1) :
            /\ SetRecordedBuffer("t1", b, 1) =>
                 /\ rec_stat_count' =
                      (rec_stat_count + 1) % kStatCallInterval
                 /\ PostedLevel(queue') =
                      IF rec_stat_count' = 0 THEN MaxAbsValueW16(b) ELSE 0
            /\ (audio_transport_cb # NULL
                /\ RequestPlayoutData("t1", 1, 0, 1, b)) =>
                 /\ play_stat_count' =
                      (play_stat_count + 1) % kStatCallInterval
                 /\ PostedLevel(queue') =
                      IF play_stat_count' = 0 THEN MaxAbsValueW16(b) ELSE 0
            /\ (audio_transport_cb = NULL
                /\ RequestPlayoutData("t1", 1, 0, 1, b)) =>
                 UNCHANGED <<play_stat_count, queue>>]_vars

\* The level was derived on the last call of MaxLevelRounds rounds of
\* recording calls, from a buffer of kInt16Min, after as many playout rounds
\* less one call.
C15_Witness ==
    /\ num_rec_calls = MaxLevelRounds * kStatCallInterval
    /\ rec_stat_count = 0
    /\ queue # <<>> /\ queue[1].fn = "UpdateRecStats"
    /\ queue[1].a = kInt16Max
    /\ num_play_calls = MaxLevelRounds * kStatCallInterval - 1
    /\ play_stat_count = kStatCallInterval - 1

\* C16: once a recording session has been started and every posted task has
\* run, rec_callbacks_ is the number of SetRecordedBuffer calls made since the
\* StartRecording that started the session and rec_samples_ the sum of their
\* frame counts, whatever LogStats rounds ran in between; as long as every
\* sample of the session was zero, only_silence_recorded_ is true.
C16_CumulativeRecStatsExact ==
    (num_timers > 0 /\ queue = <<>>) =>
        /\ rec_callbacks = session_calls
        /\ rec_samples = session_samples
        /\ ~session_nonzero => only_silence_recorded

\* In the second session, after a printed report, two silent calls of
\* MaxFrames frames have been counted; the calls of the warm-up and of the
\* first session are not.
C16_Witness ==
    /\ num_timers = MaxTimers /\ recording /\ queue = <<>>
    /\ log_reports > 0
    /\ num_rec_calls = WarmCalls + MaxStatCalls
    /\ session_calls = 2 /\ rec_callbacks = 2
    /\ session_samples = 2 * MaxFrames /\ rec_samples = 2 * MaxFrames
    /\ ~session_nonzero /\ only_silence_recorded

\* C17, as claimed: a Start that activates a direction leaves its call
\* counter (rec_stat_count_, play_stat_count_) at 0, at the latest once its
\* stats reset has run.
C17_StartResetsCallCounter ==
    /\ [][(~recording /\ StartRecording) => rec_stat_count' = 0]_vars
    /\ [][(~playing /\ StartPlayout) => play_stat_count' = 0]_vars
    /\ [][ResetRecStats => rec_stat_count' = 0]_vars
    /\ [][ResetPlayStats => play_stat_count' = 0]_vars

\* C17, amended: ResetRecStats / ResetPlayStats, posted by the Start that
\* activates the direction, zero the callback counts, the sample counts, their
\* last values and the level; neither they nor the Start touch the call
\* counter, which keeps counting the direction's data calls since
\* construction modulo kStatCallInterval, through every session.
C17_StartKeepsCallCounter ==
    /\ [][(StartRecording \/ ResetRecStats)
            => rec_stat_count' = rec_stat_count]_vars
    /\ [][(StartPlayout \/ ResetPlayStats)
            => play_stat_count' = play_stat_count]_vars
    /\ [][ResetRecStats => rec_stats' = <<0, 0, 0, 0, 0>>]_vars
    /\ [][ResetPlayStats => play_stats' = <<0, 0, 0, 0, 0>>]_vars
    /\ [](rec_stat_count = num_rec_calls % kStatCallInterval)
    /\ [](play_stat_count = num_play_calls % kStatCallInterval)

\* Both directions were started after kStatCallInterval - 1 data calls each;
\* the level was then derived on the first recording call of the session,
\* which found a non-zero sample.
C17_Witness ==
    /\ recording /\ playing
    /\ session_calls = 1 /\ num_rec_calls = kStatCallInterval
    /\ rec_stat_count = 0 /\ ~only_silence_recorded
    /\ play_stat_count = kStatCallInterval - 1
    /\ queue = <<>> /\ rec_callbacks = 1 /\ play_callbacks = 0

\* C18: once a recording session has been started and stopped, an
\* UpdateRecStats task that the task queue still runs, and a delayed LogStats
\* task that it runs while playout is inactive too, leave every statistics
\* member of both directions unchanged.
C18_TasksAfterStopChangeNothing ==
    [][(/\ num_timers > 0 /\ ~recording
        /\ \/ UpdateRecStats
           \/ ~playing /\ RunDelayedLogStats)
       => UNCHANGED <<rec_stats, play_stats>>]_vars

\* C19: UpdateRecStats / UpdatePlayStats set the direction's level to the
\* larger of the stored level and the level of the call; a LogStats round that
\* is not LOG_STOP sets both levels to 0; a level decreases only to 0 and only
\* in a LogStats round or in the direction's stats reset.
C19_LevelIsRunningMax ==
    [][/\ UpdateRecStats =>
            max_rec_level' = Max(max_rec_level, Head(queue).a)
       /\ UpdatePlayStats =>
            max_play_level' = Max(max_play_level, Head(queue).a)
       /\ RunDelayedLogStats => max_rec_level' = 0 /\ max_play_level' = 0
       /\ max_rec_level' < max_rec_level =>
            /\ max_rec_level' = 0
            /\ RunLogStats \/ RunDelayedLogStats \/ ResetRecStats
       /\ max_play_level' < max_play_level =>
            /\ max_play_level' = 0
            /\ RunLogStats \/ RunDelayedLogStats \/ ResetPlayStats]_vars

\* Both levels still hold the level derived on the kStatCallInterval-th call
\* after the update of the next call, which carried 0, has run.
C19_Witness ==
    /\ queue = <<>>
    /\ num_rec_calls = kStatCallInterval + 1
    /\ num_play_calls = kStatCallInterval + 1
    /\ max_rec_level = kInt16Max /\ max_play_level = kInt16Max

\* C20: DeliverRecordedData on its thread returns 0 and does not abort;
\* without a transport it calls nothing and keeps new_mic_level_; with a
\* transport (and rec_channels_ # 0) it calls RecordedDataIsAvailable once
\* and stores the level it gives back unless the call returned -1, in which
\* case new_mic_level_ is kept.
C20_DeliverNeverFails ==
    [][\A t \in Threads, res \in {0, -1}, mic \in MicLevels :
         (/\ CalledOnValidThread(recording_thread_checker, t)
          /\ audio_transport_cb # NULL => rec_channels # 0
          /\ DeliverRecordedData(t, res, mic))
         => /\ ret' = 0 /\ ~aborted'
            /\ IF audio_transport_cb = NULL
               THEN /\ transport_calls' = <<>>
                    /\ new_mic_level' = new_mic_level
               ELSE /\ Len(transport_calls') = 1
                    /\ new_mic_level' =
                         IF res # -1 THEN mic ELSE new_mic_level]_vars

\* A level stored by an earlier call was kept when the transport failed and
\* gave back another one.
C20_Witness ==
    /\ last_call.op = "DeliverRecordedData" /\ ~aborted /\ ret = 0
    /\ Len(transport_calls) = 1
    /\ transport_calls[1].res = -1
    /\ transport_calls[1].out = 0
    /\ new_mic_level = 7

\* C21: whatever the sequence of Start and Stop calls, the task queue never
\* holds more than one pending delayed LogStats(LOG_ACTIVE) task.
C21_AtMostOneReporterChain == Len(delayed) <= 1

====
